---- MODULE Spec2Model ----
(***************************************************************************)
(* Model of gpep517's build_wheel_impl (src/gpep517/__main__.py): backend  *)
(* resolution, the zipfile compression override, the sys.path / sys.modules*)
(* handling around the backend call, and a driver that calls it repeatedly *)
(* in one process, catching errors.                                        *)
(*                                                                         *)
(* Python strings that the code takes apart (backend strings, module and   *)
(* attribute names) are sequences of one-character strings.  sys.path      *)
(* entries and exception names are never taken apart and are TLA+ strings. *)
(***************************************************************************)
EXTENDS Naturals, Sequences, FiniteSets

\* ------------------------------------------------------------------ bounds

\* Number of build_wheel_impl invocations the driver runs in one process.
MaxCalls == 2

\* Longest backend string enumerated by the parsing specification.
MaxLen == 5

\* ----------------------------------------------------------------- strings

\* Python's None where a string is expected: a value no string equals (strings
\* are sequences of ONE-character strings).
None == <<"None">>

\* Variant of partition: splits at the LAST occurrence (str.rpartition).
RECURSIVE LastIndex(_, _, _)
LastIndex(s, c, i) ==
    IF i = 0 THEN 0
    ELSE IF s[i] = c THEN i
    ELSE LastIndex(s, c, i - 1)

partition_last(s, c) ==
    LET i == LastIndex(s, c, Len(s)) IN
    IF i = 0 THEN <<s, <<>>, <<>>>>
    ELSE <<SubSeq(s, 1, i - 1), <<c>>, SubSeq(s, i + 1, Len(s))>>

\* str.partition(":") : (head, sep, tail) split at the FIRST ':'.
RECURSIVE FirstIndex(_, _, _)
FirstIndex(s, c, i) ==
    IF i > Len(s) THEN 0
    ELSE IF s[i] = c THEN i
    ELSE FirstIndex(s, c, i + 1)

partition(s, c) ==
    LET i == FirstIndex(s, c, 1) IN
    IF i = 0 THEN <<s, <<>>, <<>>>>
    ELSE <<SubSeq(s, 1, i - 1), <<c>>, SubSeq(s, i + 1, Len(s))>>

\* str.split(".") : split at EVERY '.', keeping empty pieces.
RECURSIVE split(_, _)
split(s, c) ==
    LET i == FirstIndex(s, c, 1) IN
    IF i = 0 THEN <<s>>
    ELSE <<SubSeq(s, 1, i - 1)>> \o split(SubSeq(s, i + 1, Len(s)), c)

\* DEFAULT_FALLBACK_BACKEND = "setuptools.build_meta:__legacy__"
DEFAULT_FALLBACK_BACKEND ==
    <<"s","e","t","u","p","t","o","o","l","s",".",
      "b","u","i","l","d","_","m","e","t","a",":",
      "_","_","l","e","g","a","c","y","_","_">>

\* ------------------------------------------------- pyproject.toml (get_toml)

\* A parsed table is [keys, build_backend, backend_path]: keys is the set of
\* keys of [build-system] that are present; a value is read only if its key is.
EmptyTable == [keys |-> {}, build_backend |-> None, backend_path |-> <<>>]

\* dict.get(key, default) on the [build-system] table.
DictGet(d, key, default) ==
    IF key \notin d.keys THEN default
    ELSE IF key = "build-backend" THEN d.build_backend
    ELSE d.backend_path

\* get_toml(path).get("build-system", {}) : a file that does not exist parses
\* as {} (FileNotFoundError is caught), and {} has no build-system table.
get_toml(doc) ==
    IF doc.file THEN [build_system |-> doc.build_system, table |-> doc.table]
    ELSE [build_system |-> FALSE, table |-> EmptyTable]

BuildSystem(toml) ==
    IF toml.build_system THEN toml.table ELSE EmptyTable

\* The module get_toml imports before it opens the file.
tomllib == <<"t","o","m","l","l","i","b">>

\* --------------------------------------------------------------- filesystem

cwd == "/proj"

ENOENT == "ENOENT"

\* os.stat(path): the file's identity, or ENOENT when stat raises.
Stat(path) ==
    CASE path = "/proj" -> "ino_proj"
      [] path = "."     -> "ino_proj"
      [] path = "/site" -> "ino_site"
      [] path = "src"   -> "ino_src"
      [] path = "lib"   -> "ino_lib"
      [] path = "/plug" -> "ino_plug"
      [] OTHER          -> ENOENT

\* Variant of safe_samefile: an entry that cannot be stat'ed counts as cwd.
safe_samefile_raise_true(path, dir) ==
    IF Stat(dir) = ENOENT \/ Stat(path) = ENOENT THEN TRUE
    ELSE Stat(dir) = Stat(path)

\* safe_samefile(path, cwd): cwd.samefile(path), False when it raises.
safe_samefile(path, dir) ==
    IF Stat(dir) = ENOENT \/ Stat(path) = ENOENT THEN FALSE
    ELSE Stat(dir) = Stat(path)

\* [x for x in sys.path if not safe_samefile(x, cwd)]
RECURSIVE StripCwd(_)
StripCwd(path) ==
    IF path = <<>> THEN <<>>
    ELSE IF safe_samefile(Head(path), cwd) THEN StripCwd(Tail(path))
    ELSE <<Head(path)>> \o StripCwd(Tail(path))

\* sys.path = [...]; sys.path[:0] = build_sys.get("backend-path", [])
BackendSysPath(path, build_sys) ==
    DictGet(build_sys, "backend-path", <<>>) \o StripCwd(path)

\* ------------------------------------------------ modules and import_module

zipfile == <<"z","i","p","f","i","l","e">>
setuptools == <<"s","e","t","u","p","t","o","o","l","s">>
build_meta == setuptools \o <<".","b","u","i","l","d","_","m","e","t","a">>
legacy == <<"_","_","l","e","g","a","c","y","_","_">>
p == <<"p">>
pm == <<"p",".","m">>
q == <<"q">>
dep == <<"d","e","p">>
O == <<"O">>
a == <<"a">>

\* What each directory holds.  The project directory holds a package p of its
\* own, without the backend module p.m; the in-tree backend lives under src.
Provides(dir) ==
    CASE Stat(dir) = "ino_site" -> {setuptools, build_meta, dep}
      [] Stat(dir) = "ino_src"  -> {p, pm}
      [] Stat(dir) = "ino_proj" -> {p}
      [] dir = ""               -> {p}   \* the import system reads "" as cwd
      [] OTHER                  -> {}

\* The packages import_module(name) imports on the way: every dotted prefix.
Parents(name) ==
    {SubSeq(name, 1, i - 1) : i \in {j \in 1..Len(name) : name[j] = "."}}
        \cup {name}

RECURSIVE FirstDir(_, _, _)
FirstDir(path, top, i) ==
    IF i > Len(path) THEN 0
    ELSE IF top \in Provides(path[i]) THEN i
    ELSE FirstDir(path, top, i + 1)

\* importlib.import_module(name) against sys.path and sys.modules:
\* [exc, loaded] with exc = "" when the import succeeds.  The top-level package
\* comes from the first sys.path entry that has it and its submodules from that
\* package alone; what was imported before a failure stays in sys.modules.
import_module(name, path, modules) ==
    LET top == partition(name, ".")[1]
        i == FirstDir(path, top, 1)
        found == IF i = 0 THEN {} ELSE Parents(name) \cap Provides(path[i])
    IN  IF name = <<>> THEN [exc |-> "ValueError", loaded |-> {}]
        ELSE IF name \in modules THEN [exc |-> "", loaded |-> {}]
        ELSE IF Parents(name) \subseteq found THEN [exc |-> "", loaded |-> found]
        ELSE [exc |-> "ModuleNotFoundError", loaded |-> found]

\* ------------------------------------------------- objects and getattr

\* An object reached from a module is [mod, attrs]: the attribute names walked
\* from the module to it.
NoObject == [mod |-> None, attrs |-> <<>>]

ModuleObject(name) == [mod |-> name, attrs |-> <<>>]

AttrTree(mod) ==
    CASE mod = pm         -> {<<O>>, <<O, a>>}
      [] mod = p          -> {<<a>>, <<a, p>>}
      [] mod = build_meta -> {<<legacy>>}
      [] OTHER            -> {}

\* getattr(obj, name); NoObject stands for AttributeError.
getattr(obj, name) ==
    IF obj # NoObject /\ Append(obj.attrs, name) \in AttrTree(obj.mod)
    THEN [mod |-> obj.mod, attrs |-> Append(obj.attrs, name)]
    ELSE NoObject

\* for name in obj.split("."): backend = getattr(backend, name)
RECURSIVE GetAttrLoop(_, _)
GetAttrLoop(backend, names) ==
    IF names = <<>> \/ backend = NoObject THEN backend
    ELSE GetAttrLoop(getattr(backend, Head(names)), Tail(names))

\* The names the loop on lines 100-102 walks: none when obj is empty.
AttributePath(obj) ==
    IF obj = <<>> THEN <<>> ELSE split(obj, ".")

\* if obj: for name in obj.split("."): backend = getattr(backend, name)
WalkAttributes(backend, obj) ==
    GetAttrLoop(backend, AttributePath(obj))

\* The objects that have a build_wheel attribute.
BuildBackends ==
    {ModuleObject(pm), [mod |-> pm, attrs |-> <<O, a>>],
     ModuleObject(build_meta), [mod |-> build_meta, attrs |-> <<legacy>>]}

\* ----------------------------------------------------- zipfile primitives

ZIP_STORED == "ZIP_STORED"
ZIP_DEFLATED == "ZIP_DEFLATED"
CompressTypes == {ZIP_STORED, ZIP_DEFLATED}
\* compress_type=None
NoType == "None"

\* The name argument of ZipFile.open: a plain name or a ZipInfo that carries
\* its own compress_type.
StrName == [kind |-> "str", compress_type |-> "unset"]
ZipInfo(ct) == [kind |-> "ZipInfo", compress_type |-> ct]
Names == {StrName} \cup {ZipInfo(ct) : ct \in CompressTypes}

\* A value of ZipFile.open / write / writestr is the number of override
\* closures stacked on the library function: 0 is the library's own function,
\* and an override installed over value d has value d + 1 and calls d as its
\* orig_open / orig_write / orig_writestr.
Override(orig) == orig + 1

RECURSIVE call_open(_, _, _, _)
RECURSIVE call_write(_, _, _, _)
RECURSIVE call_writestr(_, _, _, _, _)

\* The library's ZipFile.open(self, name, mode), self.compression = comp: what
\* is opened, under which name argument, and the entry's compression method.
zipfile_open(comp, name, mode) ==
    IF mode = "w"
    THEN [op |-> "write", name |-> name,
          compress_type |-> IF name.kind = "ZipInfo" THEN name.compress_type
                            ELSE comp]
    ELSE [op |-> "read", name |-> name, compress_type |-> "unset"]

\* Variant of override_open: the name is handed on as it came.
override_open_asis(orig_open, comp, name, mode) ==
    call_open(orig_open, comp, name, mode)

\* override_open: in write mode the name becomes a ZipInfo with ZIP_STORED.
override_open(orig_open, comp, name, mode) ==
    LET zinfo == IF mode = "w" THEN ZipInfo(ZIP_STORED) ELSE name
    IN  call_open(orig_open, comp, zinfo, mode)

call_open(fn, comp, name, mode) ==
    IF fn = 0 THEN zipfile_open(comp, name, mode)
    ELSE override_open(fn - 1, comp, name, mode)

\* The library's ZipFile.write(self, filename, arcname, compress_type): the
\* entry takes compress_type, or self.compression when it is None, and is
\* written through self.open(zinfo, "w"), i.e. the ZipFile.open installed now.
zipfile_write(cur_open, comp, compress_type) ==
    call_open(cur_open, comp,
              ZipInfo(IF compress_type = NoType THEN comp ELSE compress_type), "w")

\* override_write: orig_write(self, filename, arcname, zipfile.ZIP_STORED)
override_write(orig_write, cur_open, comp, compress_type) ==
    call_write(orig_write, cur_open, comp, ZIP_STORED)

call_write(fn, cur_open, comp, compress_type) ==
    IF fn = 0 THEN zipfile_write(cur_open, comp, compress_type)
    ELSE override_write(fn - 1, cur_open, comp, compress_type)

\* The library's ZipFile.writestr(self, zinfo_or_arcname, data, compress_type):
\* a ZipInfo is used as given, a name gets self.compression; a compress_type
\* that is not None replaces either; written through self.open(zinfo, "w").
zipfile_writestr(cur_open, comp, name, compress_type) ==
    LET own == IF name.kind = "ZipInfo" THEN name.compress_type ELSE comp
    IN  call_open(cur_open, comp,
                  ZipInfo(IF compress_type = NoType THEN own ELSE compress_type),
                  "w")

\* override_writestr: orig_writestr(self, zinfo_or_arcname, data, ZIP_STORED)
override_writestr(orig_writestr, cur_open, comp, name, compress_type) ==
    call_writestr(orig_writestr, cur_open, comp, name, ZIP_STORED)

call_writestr(fn, cur_open, comp, name, compress_type) ==
    IF fn = 0 THEN zipfile_writestr(cur_open, comp, name, compress_type)
    ELSE override_writestr(fn - 1, cur_open, comp, name, compress_type)

\* ------------------------------------------------------- backend resolution

\* Variant of ResolveBackend: the manifest's backend wins over --backend.
ResolveBackend_manifest_first(args_backend, build_sys, fallback_backend) ==
    IF "build-backend" \in build_sys.keys THEN build_sys.build_backend
    ELSE IF args_backend # None THEN args_backend
    ELSE fallback_backend

\* Variant of ResolveBackend: --no-fallback-backend is ignored.
ResolveBackend_default_fallback(args_backend, build_sys, fallback_backend) ==
    IF args_backend # None THEN args_backend
    ELSE DictGet(build_sys, "build-backend", DEFAULT_FALLBACK_BACKEND)

\* backend_s = args.backend
\* if backend_s is None:
\*     backend_s = build_sys.get("build-backend", args.fallback_backend)
ResolveBackend(args_backend, build_sys, fallback_backend) ==
    IF args_backend # None THEN args_backend
    ELSE DictGet(build_sys, "build-backend", fallback_backend)

\* Variant of UnloadNew: nothing is unloaded.
UnloadNew_keep(modules, orig_modules) ==
    modules

\* for mod in frozenset(sys.modules).difference(orig_modules):
\*     del sys.modules[mod]
UnloadNew(modules, orig_modules) ==
    modules \ (modules \ orig_modules)

\* -------------------------------------------------------------------- state

VARIABLES
    sys_modules,      \* set(sys.modules): the names of the loaded modules
    sys_path,         \* sys.path
    ZipFile_open,     \* zipfile.ZipFile.open
    ZipFile_write,    \* zipfile.ZipFile.write
    ZipFile_writestr, \* zipfile.ZipFile.writestr
    pc,               \* where build_wheel_impl is; "idle": the driver has control
    calls,            \* invocations started by the driver
    req,              \* the invocation's inputs: args and pyproject.toml
    loc,              \* build_wheel_impl's local variables
    outcome,          \* what the last invocation gave its caller
    written,          \* the last ZipFile.open / write / writestr the backend made
    pre,              \* the process globals when the invocation started
    first,            \* the process globals when the first invocation started
    ps                \* the backend-string parsing run (SpecParse only)

mainvars == <<sys_modules, sys_path, ZipFile_open, ZipFile_write,
              ZipFile_writestr, pc, calls, req, loc, outcome, written, pre,
              first>>
vars == <<mainvars, ps>>
globals == <<sys_modules, sys_path, ZipFile_open, ZipFile_write,
             ZipFile_writestr>>

\* The globals as an invocation finds them; snapshot: the loaded modules at the
\* time frozenset(sys.modules) is taken on line 92.
Observed(snapshot) ==
    [modules |-> sys_modules, snapshot |-> snapshot, path |-> sys_path,
     open |-> ZipFile_open, write |-> ZipFile_write,
     writestr |-> ZipFile_writestr]

\* ------------------------------------------------------------------- inputs

\* Values of --backend.
BackendStrings ==
    {pm \o <<":">> \o O \o <<".">> \o a,   \* "p.m:O.a"
     pm \o <<":">> \o O,                   \* "p.m:O"  (O has no build_wheel)
     pm \o <<":", "x">>,                   \* "p.m:x"  (no such attribute)
     q}                                    \* "q"      (no such module)

\* Values of build-system.build-backend and build-system.backend-path.
ManifestBackends == {pm}                   \* "p.m"
ManifestPaths == {<<"lib", "src">>}

\* argparse: --backend, --fallback-backend / --no-fallback-backend,
\* --allow-compressed
Args ==
    [backend : {None} \cup BackendStrings,
     fallback_backend : {None, DEFAULT_FALLBACK_BACKEND},
     allow_compressed : BOOLEAN]

Tables ==
    {[keys |-> k,
      build_backend |-> IF "build-backend" \in k THEN b ELSE None,
      backend_path |-> IF "backend-path" \in k THEN bp ELSE <<>>] :
        k \in SUBSET {"build-backend", "backend-path"},
        b \in ManifestBackends,
        bp \in ManifestPaths}

\* pyproject.toml: absent, without a [build-system] table, or with one.
Docs ==
    {[file |-> FALSE, build_system |-> FALSE, table |-> EmptyTable],
     [file |-> TRUE, build_system |-> FALSE, table |-> EmptyTable]}
        \cup {[file |-> TRUE, build_system |-> TRUE, table |-> t] : t \in Tables}

NoReq == [args |-> [backend |-> None, fallback_backend |-> None,
                    allow_compressed |-> FALSE],
          doc |-> [file |-> FALSE, build_system |-> FALSE, table |-> EmptyTable]]

NoLocals ==
    [allow_compressed |-> FALSE, backend_s |-> None, package |-> None,
     obj |-> None, backend |-> NoObject, orig_modules |-> {},
     orig_path |-> <<>>, orig_open |-> 0, orig_write |-> 0,
     orig_writestr |-> 0, wheel_name |-> "None"]

\* kind: "return" or "raise"; value: the wheel name or the exception that
\* reaches the caller; cause: the exception it wraps; at: the step that raised.
NoOutcome == [kind |-> "none", value |-> "None", cause |-> "None", at |-> "none"]
NoWrite == [prim |-> "none", mode |-> "none", name |-> StrName,
            result |-> [op |-> "none", name |-> StrName,
                        compress_type |-> "unset"]]
NoParse == [stage |-> "off", s |-> <<>>, package |-> <<>>, obj |-> <<>>,
            names |-> <<>>, backend |-> NoObject]

\* sys.path of the process before the first invocation.
\* "/proj" and "." are the working directory, "" and "/gone" cannot be
\* stat'ed.
InitPath == <<"", "/proj", "/gone", ".", "/site">>

WheelNames == {"p-1-py3-none-any.whl", "p-2-py3-none-any.whl"}
BackendExceptions == {"ValueError", "AttributeError"}
\* Directories a backend adds to sys.path.
PluginDirs == {"/plug"}

Init ==
    /\ sys_modules = {}
    /\ sys_path = InitPath
    /\ ZipFile_open = 0
    /\ ZipFile_write = 0
    /\ ZipFile_writestr = 0
    /\ pc = "idle"
    /\ calls = 0
    /\ req = NoReq
    /\ loc = NoLocals
    /\ outcome = NoOutcome
    /\ written = NoWrite
    /\ pre = Observed({})
    /\ first = Observed({})
    /\ ps = NoParse

\* ------------------------------------------------------------------ actions

\* Variant of Propagate: the exception is wrapped before it leaves.
Propagate_wrapped(exc) ==
    /\ pc' = "idle"
    /\ outcome' = [kind |-> "raise", value |-> "BackendError", cause |-> exc,
                   at |-> pc]
    /\ loc' = NoLocals
    /\ req' = NoReq
    /\ written' = NoWrite

\* An exception leaves build_wheel_impl: the function has no try/finally and
\* no except clause, so the exception reaches the caller as raised and nothing
\* after the raising line runs.
Propagate(exc) ==
    /\ pc' = "idle"
    /\ outcome' = [kind |-> "raise", value |-> exc, cause |-> "None", at |-> pc]
    /\ loc' = NoLocals
    /\ req' = NoReq
    /\ written' = NoWrite

\* Lines 45-52 when no backend can be determined: get_toml has imported its
\* parser, then RuntimeError is raised.
ConfigError ==
    /\ pc = "idle"
    /\ calls < MaxCalls
    /\ \E args \in Args, doc \in Docs :
          LET build_sys == BuildSystem(get_toml(doc)) IN
          /\ ResolveBackend(args.backend, build_sys, args.fallback_backend) = None
          /\ pre' = Observed(sys_modules)
          /\ sys_modules' = sys_modules \cup {tomllib}
          /\ calls' = calls + 1
          /\ pc' = "idle"
          /\ outcome' = [kind |-> "raise", value |-> "RuntimeError",
                         cause |-> "None", at |-> "resolve"]
          /\ req' = [args |-> args, doc |-> doc]
          /\ loc' = NoLocals
          /\ written' = NoWrite
    /\ UNCHANGED <<sys_path, ZipFile_open, ZipFile_write, ZipFile_writestr,
                   first, ps>>

\* Lines 45-97: resolve the backend, install the compression overrides, take
\* the snapshot and set sys.path up for the import.
Enter ==
    /\ pc = "idle"
    /\ calls < MaxCalls
    /\ \E args \in Args, doc \in Docs :
          LET build_sys == BuildSystem(get_toml(doc))
              backend_s == ResolveBackend(args.backend, build_sys,
                                          args.fallback_backend)
              parts == partition(backend_s, ":")
              guard == ~args.allow_compressed
              modules == sys_modules \cup {tomllib}
                            \cup (IF guard THEN {zipfile} ELSE {})
          IN
          /\ backend_s # None
          /\ pre' = Observed(modules)
          /\ ZipFile_open' = IF guard THEN Override(ZipFile_open)
                             ELSE ZipFile_open
          /\ ZipFile_write' = IF guard THEN Override(ZipFile_write)
                              ELSE ZipFile_write
          /\ ZipFile_writestr' = IF guard THEN Override(ZipFile_writestr)
                                 ELSE ZipFile_writestr
          /\ sys_modules' = modules
          /\ sys_path' = BackendSysPath(sys_path, build_sys)
          /\ loc' = [allow_compressed |-> args.allow_compressed,
                     backend_s |-> backend_s,
                     package |-> parts[1],
                     obj |-> parts[3],
                     backend |-> NoObject,
                     orig_modules |-> modules,
                     orig_path |-> sys_path,
                     orig_open |-> IF guard THEN ZipFile_open ELSE 0,
                     orig_write |-> IF guard THEN ZipFile_write ELSE 0,
                     orig_writestr |-> IF guard THEN ZipFile_writestr ELSE 0,
                     wheel_name |-> "None"]
          /\ req' = [args |-> args, doc |-> doc]
    /\ pc' = "import"
    /\ calls' = calls + 1
    /\ outcome' = NoOutcome
    /\ written' = NoWrite
    /\ UNCHANGED <<first, ps>>

\* Line 98: backend = importlib.import_module(package)
Import ==
    /\ pc = "import"
    /\ LET r == import_module(loc.package, sys_path, sys_modules) IN
          /\ r.exc = ""
          /\ sys_modules' = sys_modules \cup r.loaded
    /\ loc' = [loc EXCEPT !.backend = ModuleObject(loc.package)]
    /\ pc' = "getattr"
    /\ UNCHANGED <<sys_path, ZipFile_open, ZipFile_write, ZipFile_writestr,
                   calls, req, outcome, written, pre, first, ps>>

ImportFails ==
    /\ pc = "import"
    /\ LET r == import_module(loc.package, sys_path, sys_modules) IN
          /\ r.exc # ""
          /\ sys_modules' = sys_modules \cup r.loaded
          /\ Propagate(r.exc)
    /\ UNCHANGED <<sys_path, ZipFile_open, ZipFile_write, ZipFile_writestr,
                   calls, pre, first, ps>>

\* Lines 100-102: walk the attribute path.
GetAttr ==
    /\ pc = "getattr"
    /\ WalkAttributes(loc.backend, loc.obj) # NoObject
    /\ loc' = [loc EXCEPT !.backend = WalkAttributes(loc.backend, loc.obj)]
    /\ pc' = "call"
    /\ UNCHANGED <<globals, calls, req, outcome, written, pre, first, ps>>

GetAttrFails ==
    /\ pc = "getattr"
    /\ WalkAttributes(loc.backend, loc.obj) = NoObject
    /\ Propagate("AttributeError")
    /\ UNCHANGED <<globals, calls, pre, first, ps>>

\* Line 105: backend.build_wheel is looked up and called.
CallBuildWheel ==
    /\ pc = "call"
    /\ loc.backend \in BuildBackends
    /\ pc' = "backend"
    /\ req' = NoReq
    /\ UNCHANGED <<globals, calls, loc, outcome, written, pre, first, ps>>

NoBuildWheel ==
    /\ pc = "call"
    /\ loc.backend \notin BuildBackends
    /\ Propagate("AttributeError")
    /\ UNCHANGED <<globals, calls, pre, first, ps>>

\* ---- what the backend's build_wheel does while it runs (between the call on
\* ---- line 105 and its return)

\* Modules a backend imports while it builds.
BackendModules == {dep}

BackendImports ==
    /\ pc = "backend"
    /\ \E m \in BackendModules \ sys_modules :
          sys_modules' = sys_modules \cup {m}
    /\ UNCHANGED <<sys_path, ZipFile_open, ZipFile_write, ZipFile_writestr,
                   pc, calls, req, loc, outcome, written, pre, first, ps>>

\* del sys.modules[m] for a module imported since the snapshot.
BackendUnloads ==
    /\ pc = "backend"
    /\ \E m \in (BackendModules \cap sys_modules) \ loc.orig_modules :
          sys_modules' = sys_modules \ {m}
    /\ UNCHANGED <<sys_path, ZipFile_open, ZipFile_write, ZipFile_writestr,
                   pc, calls, req, loc, outcome, written, pre, first, ps>>

\* sys.path.append(d)
BackendAppendsPath ==
    /\ pc = "backend"
    /\ \E d \in PluginDirs :
          /\ \A i \in 1..Len(sys_path) : sys_path[i] # d
          /\ sys_path' = Append(sys_path, d)
    /\ UNCHANGED <<sys_modules, ZipFile_open, ZipFile_write, ZipFile_writestr,
                   pc, calls, req, loc, outcome, written, pre, first, ps>>

\* sys.path = [d]
BackendReplacesPath ==
    /\ pc = "backend"
    /\ \E d \in PluginDirs :
          /\ sys_path # <<d>>
          /\ sys_path' = <<d>>
    /\ UNCHANGED <<sys_modules, ZipFile_open, ZipFile_write, ZipFile_writestr,
                   pc, calls, req, loc, outcome, written, pre, first, ps>>

\* zf.open(name, mode) on an archive whose default compression is comp.
BackendOpens ==
    /\ pc = "backend"
    /\ \E name \in Names, mode \in {"r", "w"}, comp \in CompressTypes :
          written' = [prim |-> "open", mode |-> mode, name |-> name,
                      result |-> call_open(ZipFile_open, comp, name, mode)]
    /\ UNCHANGED <<globals, pc, calls, req, loc, outcome, pre, first, ps>>

\* zf.write(filename, arcname, compress_type)
BackendWrites ==
    /\ pc = "backend"
    /\ \E ct \in CompressTypes \cup {NoType}, comp \in CompressTypes :
          written' = [prim |-> "write", mode |-> "w", name |-> StrName,
                      result |-> call_write(ZipFile_write, ZipFile_open,
                                            comp, ct)]
    /\ UNCHANGED <<globals, pc, calls, req, loc, outcome, pre, first, ps>>

\* zf.writestr(zinfo_or_arcname, data, compress_type)
BackendWritestrs ==
    /\ pc = "backend"
    /\ \E name \in Names, ct \in CompressTypes \cup {NoType},
          comp \in CompressTypes :
          written' = [prim |-> "writestr", mode |-> "w", name |-> name,
                      result |-> call_writestr(ZipFile_writestr, ZipFile_open,
                                               comp, name, ct)]
    /\ UNCHANGED <<globals, pc, calls, req, loc, outcome, pre, first, ps>>

\* build_wheel returns the wheel's file name.
BackendReturns ==
    /\ pc = "backend"
    /\ \E w \in WheelNames : loc' = [loc EXCEPT !.wheel_name = w]
    /\ pc' = "cleanup"
    /\ UNCHANGED <<globals, calls, req, outcome, written, pre, first, ps>>

\* build_wheel raises.
BackendRaises ==
    /\ pc = "backend"
    /\ \E e \in BackendExceptions : Propagate(e)
    /\ UNCHANGED <<globals, calls, pre, first, ps>>

\* Lines 108-117: unload what was imported since the snapshot, put sys.path
\* and (unless --allow-compressed) the zipfile primitives back, return.
Cleanup ==
    /\ pc = "cleanup"
    /\ sys_modules' = UnloadNew(sys_modules, loc.orig_modules)
    /\ sys_path' = loc.orig_path
    /\ ZipFile_open' = IF ~loc.allow_compressed THEN loc.orig_open
                       ELSE ZipFile_open
    /\ ZipFile_write' = IF ~loc.allow_compressed THEN loc.orig_write
                        ELSE ZipFile_write
    /\ ZipFile_writestr' = IF ~loc.allow_compressed THEN loc.orig_writestr
                           ELSE ZipFile_writestr
    /\ outcome' = [kind |-> "return", value |-> loc.wheel_name,
                   cause |-> "None", at |-> "cleanup"]
    /\ pc' = "idle"
    /\ loc' = NoLocals
    /\ written' = NoWrite
    /\ UNCHANGED <<calls, req, pre, first, ps>>

Next ==
    \/ ConfigError
    \/ Enter
    \/ Import
    \/ ImportFails
    \/ GetAttr
    \/ GetAttrFails
    \/ CallBuildWheel
    \/ NoBuildWheel
    \/ BackendImports
    \/ BackendUnloads
    \/ BackendAppendsPath
    \/ BackendReplacesPath
    \/ BackendOpens
    \/ BackendWrites
    \/ BackendWritestrs
    \/ BackendReturns
    \/ BackendRaises
    \/ Cleanup

Spec == Init /\ [][Next]_vars

\* ------------------------------------- parsing of backend strings, in isolation

\* Every string of at most MaxLen characters over the characters that matter
\* to line 53 and lines 100-102.
Alphabet == {"p", "a", ":", "."}
Strings == UNION {[1..n -> Alphabet] : n \in 0..MaxLen}

InitParse ==
    /\ sys_modules = {}
    /\ sys_path = InitPath
    /\ ZipFile_open = 0
    /\ ZipFile_write = 0
    /\ ZipFile_writestr = 0
    /\ pc = "idle"
    /\ calls = 0
    /\ req = NoReq
    /\ loc = NoLocals
    /\ outcome = NoOutcome
    /\ written = NoWrite
    /\ pre = Observed({})
    /\ first = Observed({})
    /\ ps \in {[NoParse EXCEPT !.stage = "input", !.s = s] : s \in Strings}

\* Line 53: package, _, obj = backend_s.partition(":")
ParsePartition ==
    /\ ps.stage = "input"
    /\ ps' = [ps EXCEPT !.stage = "parsed",
                        !.package = partition(ps.s, ":")[1],
                        !.obj = partition(ps.s, ":")[3]]
    /\ UNCHANGED mainvars

\* Lines 98-102 once the module is imported: the attribute walk.
ParseWalk ==
    /\ ps.stage = "parsed"
    /\ ps' = [ps EXCEPT !.stage = "walked",
                        !.names = AttributePath(ps.obj),
                        !.backend = WalkAttributes(ModuleObject(ps.package),
                                                   ps.obj)]
    /\ UNCHANGED mainvars

NextParse ==
    \/ ParsePartition
    \/ ParseWalk

SpecParse == InitParse /\ [][NextParse]_vars

\* =================================================================== claims

Range(seq) == {seq[i] : i \in 1..Len(seq)}

\* The invocation has handed control back to its caller.
Returned == pc = "idle" /\ outcome.kind = "return"
Raised == pc = "idle" /\ outcome.kind = "raise"

ZipPrimitivesAre(g) ==
    /\ ZipFile_open = g.open
    /\ ZipFile_write = g.write
    /\ ZipFile_writestr = g.writestr

\* C1: when build_wheel_impl returns normally, whatever the backend imported,
\* unloaded or did to sys.path, sys.modules holds no name that was absent when
\* the snapshot was taken, and sys.path is the list it was before the call.
C1_NoLeakOnReturn ==
    Returned =>
        /\ sys_modules \subseteq pre.snapshot
        /\ sys_path = pre.path

\* A call has returned although the process entered it with a sys.path that is
\* not the one it set up for the backend.
C1_Witness ==
    /\ Returned
    /\ sys_path = pre.path
    /\ sys_path # StripCwd(sys_path)
    /\ tomllib \in sys_modules

\* C2: when the backend's build_wheel raises, the cleanup (unload every module
\* imported since the snapshot, restore sys.path) has run by the time the
\* exception reaches the caller.
C2_CleanupOnBackendRaise ==
    (Raised /\ outcome.at = "backend") =>
        /\ sys_modules \subseteq pre.snapshot
        /\ sys_path = pre.path

\* C3: on every exit path of build_wheel_impl, once control is back in the
\* caller, ZipFile.open, write and writestr are the three primitives that were
\* installed before the invocation started.
C3_PrimitivesRestoredOnEveryExit ==
    pc = "idle" => ZipPrimitivesAre(pre)

\* C4: every invocation of a sequence in one process, the caller catching
\* errors, starts from the process-global state the first one started from:
\* the same sys.path, the true zipfile primitives, and no module left loaded by
\* an earlier invocation.  (The modules build_wheel_impl imports for itself,
\* tomllib and zipfile, are left out of the comparison: the statement below
\* follows from the claim and is already violated.)
C4_EachInvocationStartsClean ==
    pc = "idle" =>
        /\ sys_path = first.path
        /\ ZipPrimitivesAre(first)
        /\ sys_modules \ {tomllib, zipfile} = first.modules

\* C5: with the compression guard enabled, an entry written through
\* ZipFile.open (mode "w", by name or ZipInfo), ZipFile.write or
\* ZipFile.writestr is ZIP_STORED whatever compression was asked for or preset;
\* an open in read mode reaches the library as the caller made it.
C5_GuardForcesStored ==
    (pc = "backend" /\ ~loc.allow_compressed /\ written # NoWrite) =>
        /\ written.mode = "w" =>
              /\ written.result.op = "write"
              /\ written.result.compress_type = ZIP_STORED
        /\ written.mode = "r" =>
              written.result = [op |-> "read", name |-> written.name,
                                compress_type |-> "unset"]

\* The backend wrote, with the guard on, an entry whose ZipInfo asked for
\* ZIP_DEFLATED.
C5_Witness ==
    /\ pc = "backend"
    /\ ~loc.allow_compressed
    /\ written.prim = "open"
    /\ written.mode = "w"
    /\ written.name = ZipInfo(ZIP_DEFLATED)
    /\ written.result.compress_type = ZIP_STORED

\* The manifest declares build-system.build-backend (the file exists, has the
\* table, and the table has the key).
Declares(doc) ==
    doc.file /\ doc.build_system /\ "build-backend" \in doc.table.keys

\* C6: --backend is used whenever given, also when the manifest declares
\* another backend; else the manifest's build-backend when declared; else the
\* fallback.  A missing manifest counts as an empty table.
C6_Precedence ==
    pc = "import" =>
        /\ req.args.backend # None => loc.backend_s = req.args.backend
        /\ (req.args.backend = None /\ Declares(req.doc)) =>
              loc.backend_s = req.doc.table.build_backend
        /\ (req.args.backend = None /\ ~Declares(req.doc)) =>
              loc.backend_s = req.args.fallback_backend

\* --backend was given while the manifest declares a different backend.
C6_Witness ==
    /\ pc = "import"
    /\ req.args.backend # None
    /\ Declares(req.doc)
    /\ req.doc.table.build_backend # req.args.backend
    /\ loc.backend_s = req.args.backend

\* No --backend, no declared build-backend, --no-fallback-backend.
NothingToResolve(r) ==
    /\ r.args.backend = None
    /\ ~Declares(r.doc)
    /\ r.args.fallback_backend = None

ConfigurationErrorRaised == Raised /\ outcome.at = "resolve"

\* C7 as claimed: the configuration error is raised in exactly the case that
\* nothing can be resolved, and no process-global state has been touched by
\* then: zipfile primitives, sys.path and sys.modules are as before the call.
C7_ConfigErrorTouchesNothing ==
    /\ ConfigurationErrorRaised =>
          /\ NothingToResolve(req)
          /\ ZipPrimitivesAre(pre)
          /\ sys_path = pre.path
          /\ sys_modules = pre.modules
    /\ pc = "import" => ~NothingToResolve(req)

\* C7 amended: as claimed, except that sys.modules may have gained the TOML
\* parser get_toml imports; nothing else is loaded.
C7_ConfigErrorTouchesOnlyTomllib ==
    /\ ConfigurationErrorRaised =>
          /\ NothingToResolve(req)
          /\ outcome.value = "RuntimeError"
          /\ ZipPrimitivesAre(pre)
          /\ sys_path = pre.path
          /\ sys_modules = pre.modules \cup {tomllib}
    /\ pc = "import" => ~NothingToResolve(req)

\* The configuration error was raised for a manifest that does not exist.
C7_Witness ==
    /\ ConfigurationErrorRaised
    /\ ~req.doc.file
    /\ tomllib \notin pre.modules

RECURSIVE Join(_, _)
Join(names, c) ==
    IF names = <<>> THEN <<>>
    ELSE IF Len(names) = 1 THEN names[1]
    ELSE names[1] \o <<c>> \o Join(Tail(names), c)

\* The object the attribute names lead to from the module, each name looked up
\* on what the names before it led to.
Reached(mod, names) ==
    IF \A k \in 1..Len(names) : SubSeq(names, 1, k) \in AttrTree(mod)
    THEN [mod |-> mod, attrs |-> names]
    ELSE NoObject

\* C8: a backend string is split at its first ':' into the module name and an
\* attribute path, the rest split at every '.'; without ':' or with nothing
\* after it the path is empty and the module is the backend; the attributes
\* are looked up in order, each on the result of the lookup before.
C8_BackendStringParsing ==
    /\ ps.stage \in {"parsed", "walked"} =>
          /\ ":" \notin Range(ps.package)
          /\ ":" \notin Range(ps.s) => (ps.package = ps.s /\ ps.obj = <<>>)
          /\ ":" \in Range(ps.s) => ps.s = ps.package \o <<":">> \o ps.obj
    /\ ps.stage = "walked" =>
          /\ ps.obj = <<>> =>
                (ps.names = <<>> /\ ps.backend = ModuleObject(ps.package))
          /\ ps.obj # <<>> =>
                /\ Join(ps.names, ".") = ps.obj
                /\ \A i \in 1..Len(ps.names) : "." \notin Range(ps.names[i])
          /\ ps.backend = Reached(ps.package, ps.names)
          /\ ps.s = <<"p", ":", "a", ".", "p">> =>
                (ps.package = p /\ ps.names = <<a, p>>)

\* "p:a.p" has been parsed and walked to the object p.a.p.
C8_Witness ==
    /\ ps.stage = "walked"
    /\ ps.s = <<"p", ":", "a", ".", "p">>
    /\ ps.backend = [mod |-> p, attrs |-> <<a, p>>]

ResolutionSteps == {"import", "getattr", "call"}

RECURSIVE NotCwd(_)
NotCwd(path) ==
    IF path = <<>> THEN <<>>
    ELSE (IF Stat(Head(path)) # ENOENT /\ Stat(Head(path)) = Stat(cwd)
          THEN <<>> ELSE <<Head(path)>>) \o NotCwd(Tail(path))

DeclaredBackendPath(doc) ==
    IF doc.file /\ doc.build_system /\ "backend-path" \in doc.table.keys
    THEN doc.table.backend_path
    ELSE <<>>

====
